---- MODULE Spec2Model ----
(***************************************************************************)
(* A model of the ZCurve value type of zcurve.py: a position on a Z-order  *)
(* curve (z, depth, halfsplit) with its constructors, de-interleaving,     *)
(* quadtree navigation, neighbour computation, addition and relations.     *)
(*                                                                         *)
(* Python integers are unbounded.  The bit-level expressions of the source *)
(* are evaluated on two's-complement bit sets of IntWidth bits (the set of *)
(* the positions of the 1 bits), wide enough that no value of the model    *)
(* overflows; a cell keeps z as a plain integer.                            *)
(*                                                                         *)
(* Every operand of the model is a ZCurve, so ensureSameType never raises  *)
(* and is left out.  fromLatLon (the external Geohash), region (floating   *)
(* point) and debruijn are not modelled.                                   *)
(***************************************************************************)
EXTENDS Integers, Sequences, FiniteSets, TLC

VARIABLES self, other, op, arg, out

vars == <<self, other, op, arg, out>>

(* ---------------------------------------------------------------- bounds *)

\* Deepest recursion level of the cells the model builds.
MaxDepth == 2

\* Width of the two's-complement bit sets standing for Python's integers.
IntWidth == 66

(* ------------------------------------------------- integers as bit sets *)

BitPositions == 0 .. (IntWidth - 1)

\* The two's-complement bits of an integer n of magnitude below 2 ^ 30
\* (sign-extended).
Bits(n) ==
  {i \in BitPositions : IF i < 30 THEN (n \div (2 ^ i)) % 2 = 1 ELSE n < 0}

RECURSIVE SumBits(_, _)
SumBits(s, i) ==
  IF i < 0 THEN 0 ELSE (IF i \in s THEN 2 ^ i ELSE 0) + SumBits(s, i - 1)

IsNeg(s) == (IntWidth - 1) \in s

\* The integer a bit set stands for (magnitudes below 2 ^ 30 only).
ToInt(s) ==
  IF IsNeg(s)
    THEN 0 - SumBits((0 .. 29) \ s, 29) - 1
    ELSE SumBits(s, 30)

\* The carry into bit i of s + t: some lower bit is set in both and every
\* bit between is set in one of them.
CarryInto(s, t, i) ==
  \E j \in s \cap t :
    j < i /\ \A k \in (j + 1) .. (i - 1) : k \in s \/ k \in t

\* s + t (modulo 2 ^ IntWidth)
BitAdd(s, t) ==
  {i \in BitPositions : ((i \in s) # (i \in t)) # CarryInto(s, t, i)}

\* s - 1
BitDec(s) == BitAdd(s, BitPositions)

\* s & t, s | t
BitAnd(s, t) == s \cap t
BitOr(s, t) == s \cup t

\* s << n
BitShl(s, n) == {i + n : i \in {j \in s : j + n < IntWidth}}

\* 1 << i
OneShl(i) == {i}

\* s % 4 ** depth, for depth >= 0: the low 2 * depth bits, as an integer
Mod4Pow(s, depth) == ToInt(s \cap (0 .. (2 * depth - 1)))

\* s > n for a small integer n
BitGreater(s, n) ==
  IF IsNeg(s) THEN (n < 0 /\ ToInt(s) > n)
  ELSE IF \E i \in s : i >= 30 THEN TRUE
  ELSE ToInt(s) > n

(* ------------------------------------------------------- class ZCurve *)

\* 0xaaaaaaaa and 0x55555555 (32 bit)
MaskWidth == 32
EVENBITS == {i \in 0 .. (MaskWidth - 1) : i % 2 = 1}
ODDBITS == {i \in 0 .. (MaskWidth - 1) : i % 2 = 0}

\* The compass directions keying the neighbours.
Dirs == {"NORTH", "SOUTH", "WEST", "EAST"}

Cell(z, depth, halfsplit) == [z |-> z, depth |-> depth, halfsplit |-> halfsplit]

NoCells == << >>
NoNbs == [d \in {} |-> Cell(0, 0, FALSE)]

\* What a call returns: the cells, neighbours, string, truth value or pair
\* it yields, and the error it raised instead.
Result(cells, nbs, str, bool, xy, err) ==
  [cells |-> cells, nbs |-> nbs, str |-> str, bool |-> bool, xy |-> xy, err |-> err]

Nothing == Result(NoCells, NoNbs, << >>, FALSE, <<0, 0>>, "none")
Raised(e) == Result(NoCells, NoNbs, << >>, FALSE, <<0, 0>>, e)
OneCell(c) == Result(<<c>>, NoNbs, << >>, FALSE, <<0, 0>>, "none")
ManyCells(cs) == Result(cs, NoNbs, << >>, FALSE, <<0, 0>>, "none")
Truth(b) == Result(NoCells, NoNbs, << >>, b, <<0, 0>>, "none")

\* __init__ on an integer z given as a bit set (it may exceed 2 ^ 30):
\* raises when z > 4 ** depth - 1
ZCurveBits(zb, depth, halfsplit) ==
  IF BitGreater(zb, 4 ^ depth - 1)
    THEN Raised("ValueError")
    ELSE OneCell(Cell(ToInt(zb), depth, halfsplit))

\* __init__ on an integer z: raises when z > 4 ** depth - 1
ZCurve(z, depth, halfsplit) ==
  IF z > 4 ^ depth - 1
    THEN Raised("ValueError")
    ELSE OneCell(Cell(z, depth, halfsplit))

\* The cell of a construction that cannot raise.
Made(r) == r.cells[1]


\* Number of bit positions the interleaving loops visit: range(32)
LoopBits == 32

\* s >> n, for s >= 0
BitShr(s, n) == {i - n : i \in {j \in s : j >= n}}

\* fromXY with the bits of y shifted like those of x (onto the even
\* positions).
fromXYSameShift(x, y, depth) ==
  IF x >= 2 ^ depth \/ y >= 2 ^ depth
    THEN Raised("ValueError")
    ELSE LET xb == Bits(x)
             yb == Bits(y)
             z == UNION {BitOr(BitShl(BitAnd(xb, OneShl(i)), i),
                               BitShl(BitAnd(yb, OneShl(i)), i))
                         : i \in 0 .. (LoopBits - 1)}
         IN  ZCurveBits(z, depth, FALSE)

\* fromXY: interleaves the bits of x and y, then constructs
fromXY(x, y, depth) ==
  IF x >= 2 ^ depth \/ y >= 2 ^ depth
    THEN Raised("ValueError")
    ELSE LET xb == Bits(x)
             yb == Bits(y)
             z == UNION {BitOr(BitShl(BitAnd(xb, OneShl(i)), i),
                               BitShl(BitAnd(yb, OneShl(i)), i + 1))
                         : i \in 0 .. (LoopBits - 1)}
         IN  ZCurveBits(z, depth, FALSE)

\* int(bitstring, base=2) of a non-empty string of 0/1 characters
RECURSIVE ParseBin(_)
ParseBin(s) ==
  IF Len(s) = 0 THEN 0
  ELSE 2 * ParseBin(SubSeq(s, 1, Len(s) - 1)) + s[Len(s)]

\* fromBitstring (also reached through __init__ on a str); int('') raises
fromBitstring(bitstring) ==
  LET halfsplit == Len(bitstring) % 2 # 0
      padded == IF halfsplit THEN Append(bitstring, 0) ELSE bitstring
      depth == Len(padded) \div 2
  IN  IF Len(padded) = 0
        THEN Raised("ValueError")
        ELSE ZCurve(ParseBin(padded), depth, halfsplit)

\* xy: de-interleaves the low LoopBits bits of z
xy(c) ==
  LET zb == Bits(c.z)
      x == UNION {BitShr(BitAnd(zb, OneShl(i)), i \div 2)
                  : i \in {j \in 0 .. (LoopBits - 1) : j % 2 = 0}}
      y == UNION {BitShr(BitAnd(zb, OneShl(i)), (i \div 2) + 1)
                  : i \in {j \in 0 .. (LoopBits - 1) : j % 2 # 0}}
  IN  <<ToInt(x), ToInt(y)>>

\* The neighbour's z with the other axis left as it is before the step, so
\* that a carry or borrow stops at the first bit of the other axis.
neighbourBitsUnsaturated(zb, d) ==
  CASE d = "NORTH" ->
         BitOr(BitAnd(BitDec(zb), EVENBITS), BitAnd(zb, ODDBITS))
    [] d = "SOUTH" ->
         BitOr(BitAnd(BitAdd(BitAnd(zb, EVENBITS), Bits(2)), EVENBITS), BitAnd(zb, ODDBITS))
    [] d = "WEST" ->
         BitOr(BitAnd(BitDec(zb), ODDBITS), BitAnd(zb, EVENBITS))
    [] d = "EAST" ->
         BitOr(BitAnd(BitAdd(BitAnd(zb, ODDBITS), Bits(1)), ODDBITS), BitAnd(zb, EVENBITS))

\* The z value of the neighbour in direction d, before the reduction
\* modulo 4 ** depth.
neighbourBits(zb, d) ==
  CASE d = "NORTH" ->
         BitOr(BitAnd(BitDec(BitAnd(zb, EVENBITS)), EVENBITS), BitAnd(zb, ODDBITS))
    [] d = "SOUTH" ->
         BitOr(BitAnd(BitAdd(BitOr(zb, ODDBITS), Bits(1)), EVENBITS), BitAnd(zb, ODDBITS))
    [] d = "WEST" ->
         BitOr(BitAnd(BitDec(BitAnd(zb, ODDBITS)), ODDBITS), BitAnd(zb, EVENBITS))
    [] d = "EAST" ->
         BitOr(BitAnd(BitAdd(BitOr(zb, EVENBITS), Bits(1)), ODDBITS), BitAnd(zb, EVENBITS))

\* neighbours: one cell per direction, at the same depth
neighbours(c) ==
  [d \in Dirs |->
     Made(ZCurve(Mod4Pow(neighbourBits(Bits(c.z), d), c.depth), c.depth, FALSE))]

Max(m, n) == IF m >= n THEN m ELSE n

\* parent: z >> (2 * depthOffset) at depth max(0, depth - depthOffset)
parent(c, depthOffset) ==
  ZCurve(c.z \div (4 ^ depthOffset), Max(0, c.depth - depthOffset), FALSE)

\* children: the 4 ** depthOffset cells from z << (2 * depthOffset)
children(c, depthOffset) ==
  LET zBase == c.z * (4 ^ depthOffset)
      numChildren == 4 ^ depthOffset
      made == [i \in 1 .. numChildren |->
                 ZCurve(zBase + i - 1, c.depth + depthOffset, FALSE)]
  IN  IF \E i \in 1 .. numChildren : made[i].err # "none"
        THEN Raised("ValueError")
        ELSE ManyCells([i \in 1 .. numChildren |-> Made(made[i])])

\* __str__: the bits of z from bit 2 * depth - 1 down to bit skipLsb
toStr(c) ==
  LET skipLsb == IF c.halfsplit THEN 1 ELSE 0
      n == Max(0, c.depth * 2 - skipLsb)
  IN  [j \in 1 .. n |-> IF (c.depth * 2 - j) \in Bits(c.z) THEN 1 ELSE 0]

\* Addition of the two z values as plain integers.
addPlain(a, b) ==
  ZCurve(Mod4Pow(BitAdd(Bits(a.z), Bits(b.z)), a.depth), a.depth, FALSE)

\* __add__ on operands of one depth
addSameDepth(a, b) ==
  LET az == Bits(a.z)
      bz == Bits(b.z)
      z == BitOr(BitAnd(BitAdd(BitOr(az, EVENBITS), BitAnd(bz, ODDBITS)), ODDBITS),
                 BitAnd(BitAdd(BitOr(az, ODDBITS), BitAnd(bz, EVENBITS)), EVENBITS))
  IN  ZCurve(Mod4Pow(z, a.depth), a.depth, FALSE)

\* __add__ promoting the right operand whichever is the shallower.
addPromoteOther(a, b) ==
  IF b.depth # a.depth
    THEN LET deeper == IF a.depth < b.depth THEN b ELSE a
             higher == b
             promoted == children(higher, Max(0, deeper.depth - higher.depth))
         IN  IF promoted.err # "none" THEN promoted
             ELSE addSameDepth(deeper, promoted.cells[1])
    ELSE addSameDepth(a, b)

\* __add__: the shallower operand is replaced by its first child at the
\* deeper operand's depth
add(a, b) ==
  IF b.depth # a.depth
    THEN LET deeper == IF a.depth < b.depth THEN b ELSE a
             higher == IF a.depth < b.depth THEN a ELSE b
             promoted == children(higher, deeper.depth - higher.depth)
         IN  IF promoted.err # "none" THEN promoted
             ELSE addSameDepth(deeper, promoted.cells[1])
    ELSE addSameDepth(a, b)

\* __eq__
eq(a, b) == a.z = b.z /\ a.depth = b.depth /\ a.halfsplit = b.halfsplit

\* __contains__
contains(a, b) ==
  IF a.depth > b.depth THEN FALSE
  ELSE IF a.depth < b.depth
    THEN LET p == parent(b, b.depth - a.depth)
         IN  p.err = "none" /\ eq(a, Made(p))
  ELSE eq(a, b)

\* __lt__, __gt__, __le__, __ge__
lt(a, b) == a.depth > b.depth
gt(a, b) == a.depth < b.depth
le(a, b) == a.depth <= b.depth
ge(a, b) == a.depth >= b.depth

(* ------------------------------------------------------------ the calls *)

Range(f) == {f[i] : i \in DOMAIN f}

\* The cells a caller holds: the operands and results of the last call.
Avail == {self, other} \cup Range(out.cells) \cup Range(out.nbs)

Flag(b) == IF b THEN 1 ELSE 0

\* All strings of 0/1 characters of length n.
BitStrings(n) == [1 .. n -> {0, 1}]

\* A call on receiver c with operand o: what it was given and what it gave.
Call(c, o, name, a, r) ==
  /\ self' = c
  /\ other' = o
  /\ op' = name
  /\ arg' = a
  /\ out' = r

\* ZCurve(z, depth, halfsplit): self is the cell under construction
New(z, depth, halfsplit) ==
  LET r == ZCurve(z, depth, halfsplit)
  IN  Call(IF r.err = "none" THEN Made(r) ELSE self, other, "new",
           <<z, depth, Flag(halfsplit)>>, r)

FromXY(x, y, depth) ==
  LET r == fromXY(x, y, depth)
  IN  Call(IF r.err = "none" THEN Made(r) ELSE self, other, "fromXY",
           <<x, y, depth>>, r)

FromBitstring(s) ==
  LET r == fromBitstring(s)
  IN  Call(IF r.err = "none" THEN Made(r) ELSE self, other, "fromBitstring", s, r)

XY(c) ==
  Call(c, other, "xy", << >>, Result(NoCells, NoNbs, << >>, FALSE, xy(c), "none"))

Str(c) ==
  Call(c, other, "str", << >>, Result(NoCells, NoNbs, toStr(c), FALSE, <<0, 0>>, "none"))

Neighbours(c) ==
  Call(c, other, "neighbours", << >>,
       Result(NoCells, neighbours(c), << >>, FALSE, <<0, 0>>, "none"))

Parent(c, k) == Call(c, other, "parent", <<k>>, parent(c, k))

Children(c, k) ==
  /\ c.depth + k <= MaxDepth
  /\ Call(c, other, "children", <<k>>, children(c, k))

Add(c, o) == Call(c, o, "add", << >>, add(c, o))

Contains(c, o) == Call(c, o, "contains", << >>, Truth(contains(c, o)))

Eq(c, o) == Call(c, o, "eq", << >>, Truth(eq(c, o)))

Lt(c, o) == Call(c, o, "lt", << >>, Truth(lt(c, o)))
Gt(c, o) == Call(c, o, "gt", << >>, Truth(gt(c, o)))
Le(c, o) == Call(c, o, "le", << >>, Truth(le(c, o)))
Ge(c, o) == Call(c, o, "ge", << >>, Truth(ge(c, o)))

(* ------------------------------------------------------- specifications *)

\* The raw constructor's inputs: every depth up to MaxDepth, every z from
\* -1 to one past the largest position of that depth.
RawInputs ==
  {<<z, depth, h>> \in ((0 - 1) .. (4 ^ MaxDepth)) \X (0 .. MaxDepth) \X BOOLEAN :
     z <= 4 ^ depth}

\* The cells the raw constructor builds from those inputs.
InputCells ==
  {Made(ZCurve(i[1], i[2], i[3])) :
     i \in {j \in RawInputs : ZCurve(j[1], j[2], j[3]).err = "none"}}

\* A caller that has made no call yet holds ZCurve(), the default cell.
Init ==
  /\ self = Made(ZCurve(0, 1, FALSE))
  /\ other = Made(ZCurve(0, 1, FALSE))
  /\ op = "init"
  /\ arg = << >>
  /\ out = Nothing

\* A caller holding two cells built by the raw constructor.
InitPair ==
  /\ self \in InputCells
  /\ other \in InputCells
  /\ op = "init"
  /\ arg = << >>
  /\ out = Nothing

\* The first call constructs the receiver.
ConstructRaw ==
  /\ op = "init"
  /\ \E i \in RawInputs : New(i[1], i[2], i[3])

ConstructXY ==
  /\ op = "init"
  /\ \E depth \in 0 .. MaxDepth :
       \E x, y \in (0 - 1) .. (2 ^ MaxDepth) : FromXY(x, y, depth)

ConstructBits ==
  /\ op = "init"
  /\ \E n \in 0 .. (2 * MaxDepth) : \E s \in BitStrings(n) : FromBitstring(s)

\* Construction, then calls on the cells held.
Next ==
  \/ ConstructRaw
  \/ ConstructXY
  \/ ConstructBits
  \/ \E c \in Avail : XY(c)
  \/ \E c \in Avail : Str(c)
  \/ \E c \in Avail : Neighbours(c)
  \/ \E c \in Avail : \E k \in 0 .. MaxDepth : Parent(c, k)
  \/ \E c \in Avail : \E k \in 0 .. MaxDepth : Children(c, k)

Spec == Init /\ [][Next]_vars

\* fromXY and xy
NextXY ==
  \/ ConstructXY
  \/ \E c \in Avail : XY(c)

SpecXY == Init /\ [][NextXY]_vars

\* neighbours and xy
NextNbr ==
  \/ ConstructRaw
  \/ \E c \in Avail : Neighbours(c)
  \/ \E c \in Avail : XY(c)

SpecNbr == Init /\ [][NextNbr]_vars

\* The relations and the addition of two cells.
NextPair ==
  \/ Add(self, other)
  \/ Contains(self, other)
  \/ Eq(self, other)
  \/ Lt(self, other)
  \/ Gt(self, other)
  \/ Le(self, other)
  \/ Ge(self, other)

SpecPair == InitPair /\ [][NextPair]_vars

\* The addition alone.
NextAdd == Add(self, other)

SpecAdd == InitPair /\ [][NextAdd]_vars

(* ------------------------------------------------------------ properties *)

\* A cell of the curve: 0 <= z < 4 ** depth, depth >= 0.
Valid(c) == c.depth >= 0 /\ 0 <= c.z /\ c.z < 4 ^ c.depth

Opposite(d) ==
  CASE d = "NORTH" -> "SOUTH"
    [] d = "SOUTH" -> "NORTH"
    [] d = "WEST" -> "EAST"
    [] d = "EAST" -> "WEST"

\* Bit i of a non-negative integer n.
BitOf(n, i) == (n \div (2 ^ i)) % 2

\* C1: children(k) of a valid cell c, of either halfsplit value, are the
\* 4^k cells at depth c.depth + k with the positions c.z * 4^k, c.z * 4^k + 1,
\* ... in order, and parent(k) of each of them equals c.
C1_ChildrenHaveParent ==
  (op = "children" /\ Valid(self)) =>
    LET k == arg[1] IN
      /\ out.err = "none"
      /\ Len(out.cells) = 4 ^ k
      /\ \A i \in 1 .. Len(out.cells) :
           /\ out.cells[i].depth = self.depth + k
           /\ out.cells[i].z = self.z * (4 ^ k) + i - 1
           /\ parent(out.cells[i], k).err = "none"
           /\ eq(Made(parent(out.cells[i], k)), self)

\* C2: from a valid cell c at depth > 0, of either halfsplit value, the
\* neighbour in a direction and then that cell's neighbour in the opposite
\* direction is a cell equal to c.
C2_NeighbourAndBack ==
  (op = "neighbours" /\ Valid(self) /\ self.depth > 0) =>
    \A d \in Dirs : eq(neighbours(out.nbs[d])[Opposite(d)], self)

\* C3: for a valid cell c whose string has odd length exactly when c is a
\* halfsplit, constructing from the string str(c) raises nothing and gives
\* a cell equal to c.
C3_BitstringRoundTrip ==
  (/\ op = "str"
   /\ Valid(self)
   /\ (Len(out.str) % 2 = 1) = self.halfsplit) =>
    LET r == fromBitstring(out.str) IN
      r.err = "none" /\ eq(Made(r), self)

\* C4: fromXY((x, y), depth) with 0 <= x, y < 2^depth gives a cell that is
\* no halfsplit, whose z has bit 2i equal to bit i of x and bit 2i+1 equal
\* to bit i of y, and whose xy() is (x, y); with x >= 2^depth or
\* y >= 2^depth it raises.
C4_FromXYRoundTrip ==
  (op = "fromXY") =>
    LET x == arg[1]
        y == arg[2]
        depth == arg[3]
    IN  /\ (0 <= x /\ x < 2 ^ depth /\ 0 <= y /\ y < 2 ^ depth) =>
             /\ out.err = "none"
             /\ Len(out.cells) = 1
             /\ out.cells[1].halfsplit = FALSE
             /\ out.cells[1].depth = depth
             /\ Valid(out.cells[1])
             /\ \A i \in 0 .. MaxDepth :
                  /\ BitOf(out.cells[1].z, 2 * i) = BitOf(x, i)
                  /\ BitOf(out.cells[1].z, 2 * i + 1) = BitOf(y, i)
             /\ xy(out.cells[1]) = <<x, y>>
        /\ (x >= 2 ^ depth \/ y >= 2 ^ depth) => out.err = "ValueError"

\* fromXY((3, 2), 2) gave the cell with z = 13.
C4_Witness ==
  /\ op = "fromXY"
  /\ arg = <<3, 2, 2>>
  /\ out.cells = <<Cell(13, 2, FALSE)>>

\* C5: the four order relations compare the area in one direction: a < b
\* iff a is deeper, a > b iff a is shallower, a <= b iff a < b or the depths
\* are equal, a >= b iff a > b or the depths are equal.
C5_OrderOneDirection ==
  (Valid(self) /\ Valid(other)) =>
    /\ (op = "lt") => (out.bool = (self.depth > other.depth))
    /\ (op = "gt") => (out.bool = (self.depth < other.depth))
    /\ (op = "le") => (out.bool = (lt(self, other) \/ self.depth = other.depth))
    /\ (op = "ge") => (out.bool = (gt(self, other) \/ self.depth = other.depth))

\* C6: every cell there is has 0 <= z < 4^depth and depth >= 0, and the raw
\* constructor raises on a z outside that range.
C6_PositionInRange ==
  /\ \A c \in Avail : Valid(c)
  /\ (op = "new" /\ ~(0 <= arg[1] /\ arg[1] < 4 ^ arg[2])) => out.err = "ValueError"

\* The valid cells among those the raw constructor builds.
ValidCells == {c \in InputCells : Valid(c)}

\* C7 as stated: there are valid cells a and b of different depths with
\* a + b different from b + a (looked for, before any call is made, among
\* all the valid cells up to MaxDepth).
C7_SomeSumDiffers ==
  (op = "init") =>
    \E a \in ValidCells, b \in ValidCells :
      a.depth # b.depth /\ add(a, b) # add(b, a)

\* C7, amended: for all valid cells a and b, of equal or different depths,
\* a + b equals b + a.
C7_AddCommutes ==
  (op = "add" /\ Valid(self) /\ Valid(other)) =>
    /\ out.err = "none"
    /\ out = add(other, self)

\* ZCurve(5, 2) + ZCurve(1, 1) gave ZCurve(1, 2): operands of two depths.
C7_Witness ==
  /\ op = "add"
  /\ self = Cell(5, 2, FALSE)
  /\ other = Cell(1, 1, FALSE)
  /\ out.cells = <<Cell(1, 2, FALSE)>>

\* C8: the neighbours of a valid cell at depth d with xy() = (x, y) are four
\* cells at depth d: EAST at ((x+1) mod 2^d, y), WEST at ((x-1) mod 2^d, y),
\* SOUTH at (x, (y+1) mod 2^d), NORTH at (x, (y-1) mod 2^d); at depth 0 all
\* four have z = 0.
C8_NeighboursToroidal ==
  (op = "neighbours" /\ Valid(self)) =>
    LET x == xy(self)[1]
        y == xy(self)[2]
        m == 2 ^ self.depth
    IN  /\ DOMAIN out.nbs = Dirs
        /\ \A d \in Dirs : out.nbs[d].depth = self.depth /\ Valid(out.nbs[d])
        /\ xy(out.nbs["EAST"]) = <<(x + 1) % m, y>>
        /\ xy(out.nbs["WEST"]) = <<(x - 1) % m, y>>
        /\ xy(out.nbs["SOUTH"]) = <<x, (y + 1) % m>>
        /\ xy(out.nbs["NORTH"]) = <<x, (y - 1) % m>>
        /\ (self.depth = 0) => \A d \in Dirs : out.nbs[d].z = 0

\* The neighbours of ZCurve(1, 2), at (1, 0): EAST carries over a bit of
\* the y axis to (2, 0), NORTH wraps to (1, 3).
C8_Witness ==
  /\ op = "neighbours"
  /\ self = Cell(1, 2, FALSE)
  /\ out.nbs["EAST"] = Cell(4, 2, FALSE)
  /\ out.nbs["NORTH"] = Cell(11, 2, FALSE)

\* C9: the sum of two valid cells of one depth d is the cell at depth d at
\* ((xa + xb) mod 2^d, (ya + yb) mod 2^d).
C9_AddCoordinatewise ==
  (op = "add" /\ Valid(self) /\ Valid(other) /\ self.depth = other.depth) =>
    LET m == 2 ^ self.depth IN
      /\ out.err = "none"
      /\ Len(out.cells) = 1
      /\ out.cells[1].depth = self.depth
      /\ Valid(out.cells[1])
      /\ xy(out.cells[1]) = <<(xy(self)[1] + xy(other)[1]) % m,
                              (xy(self)[2] + xy(other)[2]) % m>>

\* ZCurve(7, 2) at (3, 1) plus ZCurve(3, 2) at (1, 1) gave ZCurve(8, 2) at
\* (0, 2): x wraps and y carries.
C9_Witness ==
  /\ op = "add"
  /\ self = Cell(7, 2, FALSE)
  /\ other = Cell(3, 2, FALSE)
  /\ out.cells = <<Cell(8, 2, FALSE)>>

\* C10: a valid cell c, of either halfsplit value, contains every cell of
\* children(k), and no other cell of depth c.depth + k.
C10_ContainsDescendants ==
  (/\ op = "contains"
   /\ Valid(self)
   /\ Valid(other)
   /\ other.depth >= self.depth
   /\ ~other.halfsplit) =>
    LET k == other.depth - self.depth IN
      out.bool = (other \in Range(children(self, k).cells))

====
